---- MODULE Spec2Model ----
(***************************************************************************)
(* Model of the spell checker of md-docutils (the script that follows the  *)
(* README text in src/README.md, lines 24-487): the Aspell session class,  *)
(* the tree walker, the reconciler and the main loop.                      *)
(*                                                                         *)
(* Strings are sequences of one-character strings.  Node.js runs every     *)
(* callback to completion and drains the promise jobs before it takes the  *)
(* next I/O event, so the events of the checker processes are enabled only *)
(* while the walker is suspended on unresolved promises (Idle).            *)
(***************************************************************************)
EXTENDS Naturals, Sequences, FiniteSets, TLC

(***************************************************************************)
(* Bounds of the model.                                                    *)
(***************************************************************************)
\* longest list of input documents
MaxDocs == 2
\* longest unterminated text a session keeps in its buffer
MaxBuf == 2
\* longest string passed to splitWordsAndSpaces on its own
MaxLen == 4
\* most 'data' events delivered to a session on its own
MaxChunks == 3

(***************************************************************************)
(* Characters and strings.                                                 *)
(***************************************************************************)
\* the characters of the model that are in \pL or \pN (README.md:251)
WordChars == {"a", "b", "0", "1"}

\* the characters of the model matched by \s
SpaceChars == {" ", "\r"}

\* the value of a missing array element or property
UNDEF == <<"undefined">>

\* every string taken for a word
isWordAlways(str) == TRUE

\* Aspell.isWord: ^[\pL\pN]+$
isWord(str) ==
  /\ str # UNDEF
  /\ Len(str) > 0
  /\ \A i \in 1..Len(str) : str[i] \in WordChars

\* every character a run of its own
RunEndAtOnce(str, i) == i

\* length of the longest run of one character class that starts at i
RECURSIVE RunEnd(_, _)
RunEnd(str, i) ==
  IF i < Len(str) /\ ((str[i+1] \in WordChars) <=> (str[i] \in WordChars))
    THEN RunEnd(str, i + 1)
    ELSE i

\* Aspell.splitWordsAndSpaces: split on ([\pL\pN]+|[^\pL\pN]+) keeping the
\* captured runs, then drop the empty strings between them
RECURSIVE splitWordsAndSpaces(_)
splitWordsAndSpaces(str) ==
  IF Len(str) = 0 THEN <<>>
  ELSE LET e == RunEnd(str, 1)
       IN  <<SubSeq(str, 1, e)>> \o splitWordsAndSpaces(SubSeq(str, e + 1, Len(str)))

\* (buffer + chunk).split(/\r?\n/): the pieces between line ends, the last
\* piece being the text after the last line end
RECURSIVE SplitLinesFrom(_, _, _)
SplitLinesFrom(s, i, cur) ==
  IF i > Len(s) THEN <<cur>>
  ELSE IF s[i] = "\r" /\ i < Len(s) /\ s[i+1] = "\n"
    THEN <<cur>> \o SplitLinesFrom(s, i + 2, <<>>)
  ELSE IF s[i] = "\n"
    THEN <<cur>> \o SplitLinesFrom(s, i + 1, <<>>)
  ELSE SplitLinesFrom(s, i + 1, Append(cur, s[i]))

SplitLines(s) == SplitLinesFrom(s, 1, <<>>)

\* the bytes of the two-byte UTF-8 sequence of U+00E9
Lead == "C3"
Continuation == "A9"

\* chunk.toString(), which `this.buffer + chunk` calls on the Buffer of a
\* 'data' event: the bytes decoded as UTF-8, every byte of a sequence that
\* is not complete within the chunk replaced by U+FFFD; a byte below 0x80
\* stands for its character
RECURSIVE toString(_)
toString(chunk) ==
  IF Len(chunk) = 0 THEN <<>>
  ELSE IF chunk[1] = Lead /\ Len(chunk) > 1 /\ chunk[2] = Continuation
    THEN <<"U+00E9">> \o toString(SubSeq(chunk, 3, Len(chunk)))
  ELSE IF chunk[1] \in {Lead, Continuation}
    THEN <<"U+FFFD">> \o toString(Tail(chunk))
  ELSE <<chunk[1]>> \o toString(Tail(chunk))

\* const lines = (this.buffer + chunk).split(/\r?\n/)
Lines(buf, chunk) == SplitLines(buf \o toString(chunk))

\* what lines.pop() returns, and the lines it leaves
Pop(lines) == lines[Len(lines)]

Popped(lines) == SubSeq(lines, 1, Len(lines) - 1)

\* length of the match of /:?,?\s/ at position i of s, 0 when there is none
SepLen(s, i) ==
  IF s[i] = ":" /\ i + 2 <= Len(s) /\ s[i+1] = "," /\ s[i+2] \in SpaceChars THEN 3
  ELSE IF s[i] \in {":", ","} /\ i + 1 <= Len(s) /\ s[i+1] \in SpaceChars THEN 2
  ELSE IF s[i] \in SpaceChars THEN 1
  ELSE 0

\* line.split(/:?,?\s/g)
RECURSIVE SplitFieldsFrom(_, _, _)
SplitFieldsFrom(s, i, cur) ==
  IF i > Len(s) THEN <<cur>>
  ELSE IF SepLen(s, i) > 0
    THEN <<cur>> \o SplitFieldsFrom(s, i + SepLen(s, i), <<>>)
  ELSE SplitFieldsFrom(s, i + 1, Append(cur, s[i]))

SplitFields(s) == SplitFieldsFrom(s, 1, <<>>)

\* parts[i] of a JavaScript array (0-based), undefined past its end
At(parts, i) == IF i + 1 <= Len(parts) THEN parts[i + 1] ELSE UNDEF

\* parts.slice(n)
Slice(parts, n) == IF n + 1 <= Len(parts) THEN SubSeq(parts, n + 1, Len(parts)) ELSE <<>>

\* Aspell.aspellToEventMap[c]
aspellToEventMap(c) ==
  CASE c = "*" -> "ok"
    [] c = "-" -> "run-together"
    [] c = "&" -> "misspelling"
    [] c = "#" -> "misspelling"
    [] OTHER   -> "undefined"

(***************************************************************************)
(* Documents.  A parsed document is a table of nodes, a node's identity is *)
(* its index; root is the node the root selector finds, 0 when it finds    *)
(* none.  style is set once the style rule is appended to the head.        *)
(***************************************************************************)
NoAttribs == [class |-> <<>>, title |-> <<>>]

Text(data) ==
  [type |-> "text", name |-> "", data |-> data, children |-> <<>>, attribs |-> NoAttribs]

Tag(name, children) ==
  [type |-> "tag", name |-> name, data |-> <<>>, children |-> children, attribs |-> NoAttribs]

Comment ==
  [type |-> "comment", name |-> "", data |-> <<>>, children |-> <<>>, attribs |-> NoAttribs]

\* <div><p>a <em><b>b</b></em> a</p></div>
DocPlain ==
  [root |-> 1, style |-> FALSE,
   nodes |-> << Tag("div", <<2>>),
                Tag("p", <<3, 4, 7>>),
                Text(<<"a", " ">>),
                Tag("em", <<5>>),
                Tag("b", <<6>>),
                Text(<<"b">>),
                Text(<<" ", "a">>) >>]

\* <em><pre><b>b</b></pre><!-- --><p>, </p>a b</em>, the root being the em
DocMixed ==
  [root |-> 1, style |-> FALSE,
   nodes |-> << Tag("em", <<2, 5, 6, 8>>),
                Tag("pre", <<3>>),
                Tag("b", <<4>>),
                Text(<<"b">>),
                Comment,
                Tag("p", <<7>>),
                Text(<<",", " ">>),
                Text(<<"a", " ", "b">>) >>]

\* a document in which the root selector finds nothing
DocNoRoot ==
  [root |-> 0, style |-> FALSE, nodes |-> << Tag("p", <<2>>), Text(<<"a">>) >>]

DocNames == {"plain.html", "mixed.html", "noroot.html"}

\* cheerio.load(loadFile(fname))
load(fname) ==
  CASE fname = "plain.html" -> DocPlain
    [] fname = "mixed.html" -> DocMixed
    [] OTHER                -> DocNoRoot

(***************************************************************************)
(* Options.  elementLang maps a tag name to a language, "" when the tag    *)
(* has no entry.                                                           *)
(***************************************************************************)
Langs == {"en_US", "pt_BR"}

TagNames == {"div", "p", "em", "b", "pre", "abbr"}

NoElementLang == [t \in TagNames |-> ""]

OptionSets ==
  { [lang |-> "en_US", ignoreElement |-> {"pre"}, elementLang |-> NoElementLang],
    [lang |-> "en_US", ignoreElement |-> {"pre"},
     elementLang |-> [NoElementLang EXCEPT !["em"] = "pt_BR"]],
    [lang |-> "en_US", ignoreElement |-> {},
     elementLang |-> [NoElementLang EXCEPT !["em"] = "pt_BR", !["b"] = "en_US"]],
    [lang |-> "pt_BR", ignoreElement |-> {"pre", "em"},
     elementLang |-> [NoElementLang EXCEPT !["b"] = "en_US"]] }

\* the languages that have a session: options.checkers (README.md:421-429)
Checkers(o) == {o.lang} \cup {o.elementLang[t] : t \in {u \in TagNames : o.elementLang[u] # ""}}

(***************************************************************************)
(* What a checker process may write to its output, cut into chunks.        *)
(***************************************************************************)
Chunks ==
  { <<"*", "\n">>,
    <<"*", "\n", "\n">>,
    <<"*", "\r", "\n">>,
    <<"\n">>,
    <<"@", "\n">>,
    <<"-", "\n">>,
    <<"+", "\n">>,
    <<"&", " ", "a", " ", "1", " ", "0", ":", " ", "b", ",", " ", "a", "b", "\n">>,
    <<"#", " ", "a", " ", "0", "\n">>,
    <<"#">>,
    <<" ", "b", " ", "0", "\n">> }

ErrorCategories == {"spawn", "stderr", "stdin"}

(***************************************************************************)
(* State.                                                                  *)
(***************************************************************************)
VARIABLES
  htmls,        \* the list of input documents
  options,      \* [lang, ignoreElement, elementLang, failFast]
  queue,        \* queue[l]: Aspell.queue of the session of language l
  buffer,       \* buffer[l]: Aspell.buffer
  i,            \* main's loop index
  exitStatus,   \* main's exitStatus
  pc,           \* where the walker stands
  doc,          \* the document being checked
  stack,        \* the running spellCheckChildren calls, innermost last
  promises,     \* the text node being checked and the promises of its spans
  misspellings, \* what spellCheckChildren(root) resolved to
  outFile,      \* what spellCheckHtml resolved to, <<>> for null
  exited,       \* [how, code] once the process has exited
  stdin,        \* stdin[l]: the lines written to the process of language l
  nlines,       \* nlines[l]: result lines parsed by the session of language l
  resolutions,  \* the resolve calls made: [lang, k, line]
  loaded,       \* the indexes of the documents loaded so far
  files,        \* the indexes of the documents whose output file was written
  reported,     \* main's console.log lines: <<index, "Ok!" or "Failed">>
  sent,         \* the checkWord calls of this document: [node, lang, session, word]
  visited,      \* the text nodes of this document handed to spellCheckText
  replaced,     \* the nodes of this document replaced so far
  split,        \* the last call of splitWordsAndSpaces: [str, parts]
  feed          \* the 'data' events of a session fed on its own: [chunks, lines]

vars == <<htmls, options, queue, buffer, i, exitStatus, pc, doc, stack, promises,
          misspellings, outFile, exited, stdin, nlines, resolutions, loaded, files,
          reported, sent, visited, replaced, split, feed>>

NoDoc == [root |-> 0, style |-> FALSE, nodes |-> <<>>]

NoPromises == [node |-> 0, results |-> <<>>]

NoSplit == [str |-> <<>>, parts |-> <<>>]

NoFeed == [chunks |-> <<>>, lines |-> <<>>]

\* how the process exited, with what status, after what exception
Running == [how |-> "running", code |-> 0, error |-> ""]

\* docs: every list of at most MaxDocs documents
Init ==
  /\ htmls \in UNION {[1..n -> DocNames] : n \in 0..MaxDocs}
  /\ \E o \in OptionSets, f \in BOOLEAN :
       options = [lang |-> o.lang, ignoreElement |-> o.ignoreElement,
                  elementLang |-> o.elementLang, failFast |-> f]
  /\ queue = [l \in Langs |-> <<>>]
  /\ buffer = [l \in Langs |-> <<>>]
  /\ i = 0
  /\ exitStatus = 0
  /\ pc = "main"
  /\ doc = NoDoc
  /\ stack = <<>>
  /\ promises = NoPromises
  /\ misspellings = <<>>
  /\ outFile = <<>>
  /\ exited = Running
  /\ stdin = [l \in Langs |-> <<>>]
  /\ nlines = [l \in Langs |-> 0]
  /\ resolutions = <<>>
  /\ loaded = <<>>
  /\ files = <<>>
  /\ reported = <<>>
  /\ sent = <<>>
  /\ visited = <<>>
  /\ replaced = <<>>
  /\ split = NoSplit
  /\ feed = NoFeed

(***************************************************************************)
(* The Aspell session (README.md:149-259).                                 *)
(***************************************************************************)
\* the event loop is idle: the walker waits for a promise no line has yet
\* resolved, and the process has not exited
Idle ==
  /\ exited = Running
  /\ pc = "await"
  /\ \E n \in 1..Len(promises.results) : ~promises.results[n].settled

\* the info object spellCheckText passes to checkWord, with the promise it
\* resolves: span n of node `node` of document `d`
\* (k is the request's place among the requests of its session)
Info(d, node, n, offset, lang, k) ==
  [doc |-> d, node |-> node, span |-> n, offset |-> offset, lang |-> lang, k |-> k]

NoInfo == Info(0, 0, 0, 0, "", 0)

\* Aspell.checkWord on the state st = [queue, stdin, thrown] of one session
checkWord(st, word, info) ==
  IF ~isWord(word)
    THEN [st EXCEPT !.thrown = TRUE]
    ELSE [st EXCEPT !.queue = Append(@, [word |-> word, info |-> info]),
                    !.stdin = Append(@, word \o <<"\n">>)]

\* what proc.stdin.end() leaves at the end of the process's input
EndOfInput == <<"EOF">>

\* Aspell.end on the input written so far; nothing in the script calls it
end(input) == Append(input, EndOfInput)

NoResult ==
  [type |-> "", word |-> <<>>, info |-> NoInfo, alternatives |-> <<>>, hasAlternatives |-> FALSE]

\* the request parseLine takes from the queue: this.queue.splice(0, 1)[0]
Dequeued(q) == Head(q)

\* the request left at the head of the queue
AfterSpliceKept(q) == q

\* the queue parseLine leaves: this.queue.splice(0, 1)
AfterSplice(q) == IF Len(q) = 0 THEN q ELSE Tail(q)

\* line.length <= 0
LineBreak(line) == Len(line) <= 0

\* the test for a comment line left out
CommentLineMissed(line) == FALSE

\* c === '@'
CommentLine(line) == line[1] = "@"

\* the word of the line not compared with the word of the request
WordMismatchUnchecked(word, q) == FALSE

\* word !== q.word
WordMismatch(word, q) == word # Dequeued(q).word

\* Aspell.parseLine on the queue q: [queue, result, thrown], thrown naming
\* the exception, "" when there is none
parseLine(line, q) ==
  IF LineBreak(line)
    THEN [queue |-> q, thrown |-> "", result |-> [NoResult EXCEPT !.type = "line-break"]]
  ELSE IF CommentLine(line)
    THEN [queue |-> q, thrown |-> "", result |-> [NoResult EXCEPT !.type = "comment"]]
  ELSE IF Len(q) = 0
    \* q is undefined and q.word throws a TypeError
    THEN [queue |-> q, thrown |-> "TypeError", result |-> NoResult]
  ELSE
    LET c == line[1]
        head == Dequeued(q)
        parts == SplitFields(line)
        result == [NoResult EXCEPT !.type = aspellToEventMap(c),
                                   !.word = head.word,
                                   !.info = head.info]
    IN  IF c \in {"&", "#"}
          THEN IF WordMismatch(At(parts, 1), q)
                 THEN [queue |-> AfterSplice(q), thrown |-> "expected word", result |-> NoResult]
                 ELSE [queue |-> AfterSplice(q), thrown |-> "",
                       result |-> [result EXCEPT !.alternatives = Slice(parts, 4),
                                                 !.hasAlternatives = TRUE]]
          ELSE [queue |-> AfterSplice(q), thrown |-> "", result |-> result]

\* a promise of spellCheckText: not settled, or settled with a value
\* (type is the type of the result that settled it, "" for a span that is no word)
Pending(info) ==
  [settled |-> FALSE, success |-> FALSE, word |-> <<>>, info |-> info,
   alternatives |-> <<>>, hasAlternatives |-> FALSE, hasInfo |-> TRUE, type |-> ""]

Settled(success, word, info, alternatives, hasAlternatives, hasInfo, type) ==
  [settled |-> TRUE, success |-> success, word |-> word, info |-> info,
   alternatives |-> alternatives, hasAlternatives |-> hasAlternatives, hasInfo |-> hasInfo,
   type |-> type]

\* whether the checker's 'result' handler calls result.info.resolve
Resolves(result) == result.type \in {"ok", "misspelling", "run-together"}

\* the success flag the handler resolves with
Success(result) == result.type = "ok"

\* info.resolve(value) on the promises of the text node being checked: a
\* settled promise keeps its value
resolve(ps, d, result) ==
  LET info == result.info
  IN  IF /\ info.doc = d
         /\ info.node = ps.node
         /\ info.span \in 1..Len(ps.results)
         /\ ~ps.results[info.span].settled
        THEN [ps EXCEPT !.results[info.span] =
                Settled(Success(result), result.word, info,
                        IF Success(result) THEN <<>> ELSE result.alternatives,
                        IF Success(result) THEN FALSE ELSE result.hasAlternatives,
                        TRUE, result.type)]
        ELSE ps

\* the stdout 'data' handler's loop over the complete lines, with the
\* 'result' handler called for each parsed line; st = [queue, promises,
\* nlines, resolutions, thrown], l the session's language, d the document
RECURSIVE ParseLines(_, _, _, _)
ParseLines(lines, st, l, d) ==
  IF Len(lines) = 0 \/ st.thrown # "" THEN st
  ELSE
    LET line == Head(lines)
        r == parseLine(line, st.queue)
        counted == Len(line) > 0 /\ line[1] # "@"
        n == IF counted THEN st.nlines + 1 ELSE st.nlines
    IN  IF r.thrown # ""
          THEN [st EXCEPT !.queue = r.queue, !.nlines = n, !.thrown = r.thrown]
        ELSE IF Resolves(r.result)
          THEN ParseLines(Tail(lines),
                 [st EXCEPT !.queue = r.queue,
                            !.nlines = n,
                            !.promises = resolve(@, d, r.result),
                            !.resolutions = Append(@, [lang |-> l, k |-> r.result.info.k, line |-> n])],
                 l, d)
        ELSE ParseLines(Tail(lines), [st EXCEPT !.queue = r.queue, !.nlines = n], l, d)

\* process.exit(code), reached by `how` after the exception `error`
Exit(how, code, error) == exited' = [how |-> how, code |-> code, error |-> error]

\* what the 'data' handler of session l reads and writes
Session(l) ==
  [queue |-> queue[l], promises |-> promises, nlines |-> nlines[l],
   resolutions |-> resolutions, thrown |-> ""]

\* proc.stdout.on('data'): split buffer + chunk into lines, keep the text
\* after the last line end, parse the lines; an exception of parseLine is
\* uncaught and ends the process with status 1.  A process leaves a line
\* unfinished only while it has requests to answer, and at most MaxBuf
\* characters of it.
stdoutData(l, chunk) ==
  /\ Idle
  /\ l \in Checkers(options)
  /\ LET lines == Lines(buffer[l], chunk)
         rest == Pop(lines)
         st == ParseLines(Popped(lines), Session(l), l, i)
     IN  /\ Len(rest) <= MaxBuf
         /\ Len(rest) > 0 => Len(queue[l]) > 0
         /\ buffer' = [buffer EXCEPT ![l] = rest]
         /\ queue' = [queue EXCEPT ![l] = st.queue]
         /\ promises' = st.promises
         /\ nlines' = [nlines EXCEPT ![l] = st.nlines]
         /\ resolutions' = st.resolutions
         /\ IF st.thrown # "" THEN Exit("uncaught", 1, st.thrown) ELSE UNCHANGED exited
  /\ UNCHANGED <<htmls, options, feed, split, i, exitStatus, pc, doc, stack, misspellings, outFile,
                 stdin, loaded, files, reported, sent, visited, replaced>>

\* every category ends the process
FatalAlways(category) == TRUE

\* whether the 'error' handler exits: error.category !== 'stdin'
Fatal(category) == category # "stdin"

\* the checker's 'error' handler: log, and exit unless the category is 'stdin'
errorEvent(l, category) ==
  /\ Idle
  /\ l \in Checkers(options)
  /\ IF Fatal(category) THEN Exit(category, 1, "") ELSE UNCHANGED exited
  /\ UNCHANGED <<htmls, options, feed, split, queue, buffer, i, exitStatus, pc, doc, stack, promises,
                 misspellings, outFile, stdin, nlines, resolutions, loaded, files,
                 reported, sent, visited, replaced>>

(***************************************************************************)
(* The tree walker (README.md:261-327).                                    *)
(***************************************************************************)
\* a running spellCheckChildren(node, options, lang): idx is the loop index
\* (from 1), brk is set once the loop has left by break
Frame(node, lang) ==
  [node |-> node, idx |-> 1, lang |-> lang, misspellings |-> <<>>, brk |-> FALSE]

\* the loop of spellCheckChildren never left early
BreaksNever(ms) == FALSE

\* whether the loop of spellCheckChildren leaves after this child
Breaks(ms) == Len(ms) > 0 /\ options.failFast

\* the misspellings of a child put before those of the children before it
AfterChildUnshift(f, found) ==
  LET ms == found \o f.misspellings
  IN  IF Breaks(ms)
        THEN [f EXCEPT !.misspellings = ms, !.brk = TRUE]
        ELSE [f EXCEPT !.misspellings = ms, !.idx = @ + 1]

\* misspellings.push(...found), then the fail-fast test and i += 1
AfterChild(f, found) ==
  LET ms == f.misspellings \o found
  IN  IF Breaks(ms)
        THEN [f EXCEPT !.misspellings = ms, !.brk = TRUE]
        ELSE [f EXCEPT !.misspellings = ms, !.idx = @ + 1]

Top == stack[Len(stack)]

SetTop(f) == [stack EXCEPT ![Len(stack)] = f]

Children(node) == doc.nodes[node].children

\* the loop of spellCheckChildren is at a child
AtChild ==
  /\ exited = Running
  /\ pc = "children"
  /\ ~Top.brk
  /\ Top.idx <= Len(Children(Top.node))

Child == Children(Top.node)[Top.idx]

\* no element skipped
IgnoredNever(name) == FALSE

\* whether spellCheckTag skips the element
Ignored(name) == name \in options.ignoreElement

\* the language of the parent kept whatever the element
ElementLangInherited(name, parentNodeLang) == parentNodeLang

\* options.elementLang[name] || parentNodeLang
ElementLang(name, parentNodeLang) ==
  IF options.elementLang[name] # "" THEN options.elementLang[name] ELSE parentNodeLang

\* the loop of spellCheckText over the spans, from span n on, with the
\* session l: st = [queue, stdin, thrown, results, sent, offset]
RECURSIVE CheckParts(_, _, _, _, _, _)
CheckParts(parts, n, st, node, lang, l) ==
  IF n > Len(parts) THEN st
  ELSE
    LET word == parts[n]
        info == Info(i, node, n, st.offset, lang, Len(st.stdin) + 1)
        cw == checkWord([queue |-> st.queue, stdin |-> st.stdin, thrown |-> FALSE], word, info)
        next ==
          IF isWord(word)
            THEN [st EXCEPT !.queue = cw.queue,
                            !.stdin = cw.stdin,
                            !.results = Append(@, Pending(info)),
                            !.sent = Append(@, [node |-> node, lang |-> lang, session |-> l, word |-> word]),
                            !.offset = @ + Len(word)]
            ELSE [st EXCEPT !.results =
                              Append(@, Settled(TRUE, word, [NoInfo EXCEPT !.offset = st.offset,
                                                                          !.lang = lang],
                                                <<>>, FALSE, FALSE, "")),
                            !.offset = @ + Len(word)]
    IN  CheckParts(parts, n + 1, next, node, lang, l)

\* the checker spellCheckText uses: options.checkers[lang]
Checker(lang) == lang

\* spellCheckNode on a text node: spellCheckText sends every word of the
\* node, then waits for all the promises
spellCheckText ==
  /\ AtChild
  /\ doc.nodes[Child].type = "text"
  /\ split' = [str |-> doc.nodes[Child].data,
               parts |-> splitWordsAndSpaces(doc.nodes[Child].data)]
  /\ LET lang == Top.lang
         l == Checker(lang)
         st == CheckParts(split'.parts, 1,
                 [queue |-> queue[l], stdin |-> stdin[l], thrown |-> FALSE,
                  results |-> <<>>, sent |-> sent, offset |-> 0],
                 Child, lang, l)
     IN  /\ queue' = [queue EXCEPT ![l] = st.queue]
         /\ stdin' = [stdin EXCEPT ![l] = st.stdin]
         /\ sent' = st.sent
         /\ promises' = [node |-> Child, results |-> st.results]
  /\ visited' = Append(visited, Child)
  /\ pc' = "await"
  /\ UNCHANGED <<htmls, options, feed, buffer, i, exitStatus, doc, stack, misspellings, outFile,
                 exited, nlines, resolutions, loaded, files, reported, replaced>>

\* what the promise of spellCheckText resolves to
TextResult(ps) ==
  IF \A n \in 1..Len(ps.results) : ps.results[n].success
    THEN <<>>
    ELSE << [node |-> ps.node, spellCheckResults |-> ps.results] >>

\* fulfilled with the first promise that is
AnySettled(ps) == \E n \in 1..Len(ps.results) : ps.results[n].settled

\* the promise of Promise.all(promises) is fulfilled
AllSettled(ps) == \A n \in 1..Len(ps.results) : ps.results[n].settled

\* Promise.all(promises).then(...) of spellCheckText, and the loop of
\* spellCheckChildren resumed with its value
textChecked ==
  /\ exited = Running
  /\ pc = "await"
  /\ AllSettled(promises)
  /\ stack' = SetTop(AfterChild(Top, TextResult(promises)))
  /\ promises' = NoPromises
  /\ pc' = "children"
  /\ UNCHANGED <<htmls, options, feed, split, queue, buffer, i, exitStatus, doc, misspellings, outFile,
                 exited, stdin, nlines, resolutions, loaded, files, reported, sent,
                 visited, replaced>>

\* spellCheckNode on an element: spellCheckTag returns [] for an ignored
\* element and calls spellCheckChildren with the element's language otherwise
spellCheckTag ==
  /\ AtChild
  /\ doc.nodes[Child].type = "tag"
  /\ IF Ignored(doc.nodes[Child].name)
       THEN stack' = SetTop(AfterChild(Top, <<>>))
       ELSE stack' = Append(stack, Frame(Child, ElementLang(doc.nodes[Child].name, Top.lang)))
  /\ UNCHANGED <<htmls, options, feed, split, queue, buffer, i, exitStatus, pc, doc, promises,
                 misspellings, outFile, exited, stdin, nlines, resolutions, loaded, files,
                 reported, sent, visited, replaced>>

\* spellCheckNode on a node that is neither text nor element: logged, []
spellCheckOther ==
  /\ AtChild
  /\ doc.nodes[Child].type \notin {"text", "tag"}
  /\ stack' = SetTop(AfterChild(Top, <<>>))
  /\ UNCHANGED <<htmls, options, feed, split, queue, buffer, i, exitStatus, pc, doc, promises,
                 misspellings, outFile, exited, stdin, nlines, resolutions, loaded, files,
                 reported, sent, visited, replaced>>

\* spellCheckChildren returns its misspellings: to the loop of the parent's
\* spellCheckChildren, or for the root to the reconciler of spellCheckHtml
childrenReturn ==
  /\ exited = Running
  /\ pc = "children"
  /\ Top.brk \/ Top.idx > Len(Children(Top.node))
  /\ IF Len(stack) > 1
       THEN /\ stack' = [SubSeq(stack, 1, Len(stack) - 1) EXCEPT
                           ![Len(stack) - 1] = AfterChild(@, Top.misspellings)]
            /\ UNCHANGED <<pc, misspellings>>
       ELSE /\ stack' = <<>>
            /\ misspellings' = Top.misspellings
            /\ pc' = "then"
  /\ UNCHANGED <<htmls, options, feed, split, queue, buffer, i, exitStatus, doc, promises, outFile,
                 exited, stdin, nlines, resolutions, loaded, files, reported, sent,
                 visited, replaced>>

(***************************************************************************)
(* The reconciler and the main loop (README.md:337-377, 467-487).          *)
(***************************************************************************)
\* array.join(sep)
RECURSIVE Join(_, _)
Join(array, sep) ==
  IF Len(array) = 0 THEN <<>>
  ELSE IF Len(array) = 1 THEN array[1]
  ELSE array[1] \o sep \o Join(Tail(array), sep)

\* r.alternatives.join(', ') + '?'
Title(r) == Join(r.alternatives, <<",", " ">>) \o <<"?">>

\* <abbr class="misspelling lang-${lang}" title=...>, its text at node `text`
Abbr(r, text) ==
  [type |-> "tag", name |-> "abbr", data |-> <<>>, children |-> <<text>>,
   attribs |-> [class |-> <<"misspelling", "lang-" , r.info.lang>>, title |-> Title(r)]]

\* whether the mapping of one result throws: undefined has no join
MapThrows(r) == ~r.success /\ ~r.hasAlternatives

\* the fragments spellCheckResults.map(...) makes, added to the node table:
\* acc = [nodes, ids], ids the fragments in order
RECURSIVE Fragments(_, _, _)
Fragments(results, n, acc) ==
  IF n > Len(results) THEN acc
  ELSE
    LET r == results[n]
        id == Len(acc.nodes) + 1
    IN  IF r.success
          THEN Fragments(results, n + 1,
                 [nodes |-> Append(acc.nodes, Text(r.word)), ids |-> Append(acc.ids, id)])
          ELSE Fragments(results, n + 1,
                 [nodes |-> acc.nodes \o <<Abbr(r, id + 1), Text(r.word)>>,
                  ids |-> Append(acc.ids, id)])

\* all the children of the parent of `node` replaced by the nodes `ids`
SpliceAll(children, node, ids) ==
  IF \E n \in 1..Len(children) : children[n] = node THEN ids ELSE children

\* the children of a parent with `node` replaced by the nodes `ids`
RECURSIVE Splice(_, _, _)
Splice(children, node, ids) ==
  IF Len(children) = 0 THEN <<>>
  ELSE IF Head(children) = node THEN ids \o Splice(Tail(children), node, ids)
  ELSE <<Head(children)>> \o Splice(Tail(children), node, ids)

\* doc(node).replaceWith(fragments)
replaceWith(d, node, results) ==
  LET acc == Fragments(results, 1, [nodes |-> d.nodes, ids |-> <<>>])
  IN  [d EXCEPT !.nodes =
         [n \in 1..Len(acc.nodes) |->
            IF n <= Len(d.nodes)
              THEN [acc.nodes[n] EXCEPT !.children = Splice(@, node, acc.ids)]
              ELSE acc.nodes[n]]]

\* the loop of the reconciler over the misspellings, from entry n on:
\* st = [doc, replaced, thrown]
RECURSIVE Reconcile(_, _, _)
Reconcile(ms, n, st) ==
  IF n > Len(ms) \/ st.thrown THEN st
  ELSE
    LET m == ms[n]
    IN  IF \E k \in 1..Len(m.spellCheckResults) : MapThrows(m.spellCheckResults[k])
          THEN [st EXCEPT !.thrown = TRUE]
          ELSE Reconcile(ms, n + 1,
                 [st EXCEPT !.doc = replaceWith(@, m.node, m.spellCheckResults),
                            !.replaced = Append(@, m.node)])

\* path.join(options.outputDir, fname.replace(/[.]html$/, spellCheckedSuffix))
OutFile(fname) == <<fname, "-spellchecked.html">>

\* spellCheckHtml up to the call of spellCheckChildren(root): load the
\* document, find the root; without a root the promise of spellCheckHtml is
\* rejected, main's promise with it, and the catch handler exits with 1
spellCheckHtml ==
  /\ exited = Running
  /\ pc = "main"
  /\ i < Len(htmls)
  /\ doc' = load(htmls[i + 1])
  /\ loaded' = Append(loaded, i)
  /\ sent' = <<>>
  /\ visited' = <<>>
  /\ replaced' = <<>>
  /\ misspellings' = <<>>
  /\ outFile' = <<>>
  /\ IF doc'.root = 0
       THEN /\ Exit("catch", 1, "no root")
            /\ UNCHANGED <<stack, pc>>
       ELSE /\ stack' = <<Frame(doc'.root, options.lang)>>
            /\ pc' = "children"
            /\ UNCHANGED exited
  /\ UNCHANGED <<htmls, options, feed, split, queue, buffer, i, exitStatus, promises, stdin, nlines,
                 resolutions, files, reported>>

\* the then-callback of spellCheckHtml: null without misspellings; else
\* replace every listed node, append the style rule, save the file
reconcile ==
  /\ exited = Running
  /\ pc = "then"
  /\ IF Len(misspellings) = 0
       THEN /\ outFile' = <<>>
            /\ pc' = "resume"
            /\ UNCHANGED <<doc, replaced, files, exited>>
       ELSE LET st == Reconcile(misspellings, 1,
                        [doc |-> doc, replaced |-> replaced, thrown |-> FALSE])
            IN  /\ replaced' = st.replaced
                /\ IF st.thrown
                     THEN /\ doc' = st.doc
                          /\ Exit("catch", 1, "TypeError")
                          /\ UNCHANGED <<outFile, files, pc>>
                     ELSE /\ doc' = [st.doc EXCEPT !.style = TRUE]
                          /\ files' = Append(files, i)
                          /\ outFile' = OutFile(htmls[i + 1])
                          /\ pc' = "resume"
                          /\ UNCHANGED exited
  /\ UNCHANGED <<htmls, options, feed, split, queue, buffer, i, exitStatus, stack, promises,
                 misspellings, stdin, nlines, resolutions, loaded, reported, sent, visited>>

\* the exit status set anew for every document
StatusOfLast(status, file) == IF file # <<>> THEN 1 ELSE 0

\* main's exitStatus after a document: if (outFile) exitStatus = 1
StatusAfter(status, file) == IF file # <<>> THEN 1 ELSE status

\* fail-fast without effect on main's loop
HaltsNever(file) == FALSE

\* whether main leaves its loop after a document: outFile && options.failFast
Halts(file) == file # <<>> /\ options.failFast

\* main after `await spellCheckHtml(...)`: report the document, set the
\* exit status, leave the loop under fail-fast
mainResume ==
  /\ exited = Running
  /\ pc = "resume"
  /\ reported' = Append(reported, <<i, IF outFile # <<>> THEN "Failed" ELSE "Ok!">>)
  /\ exitStatus' = StatusAfter(exitStatus, outFile)
  /\ IF Halts(outFile)
       THEN pc' = "return" /\ UNCHANGED i
       ELSE pc' = "main" /\ i' = i + 1
  /\ UNCHANGED <<htmls, options, feed, split, queue, buffer, doc, stack, promises, misspellings,
                 outFile, exited, stdin, nlines, resolutions, loaded, files, sent,
                 visited, replaced>>

\* the loop condition of main fails
mainLoopEnd ==
  /\ exited = Running
  /\ pc = "main"
  /\ i >= Len(htmls)
  /\ pc' = "return"
  /\ UNCHANGED <<htmls, options, feed, split, queue, buffer, i, exitStatus, doc, stack, promises,
                 misspellings, outFile, exited, stdin, nlines, resolutions, loaded, files,
                 reported, sent, visited, replaced>>

\* main returns exitStatus and .then(process.exit) exits with it
mainReturn ==
  /\ exited = Running
  /\ pc = "return"
  /\ Exit("main", exitStatus, "")
  /\ UNCHANGED <<htmls, options, feed, split, queue, buffer, i, exitStatus, pc, doc, stack, promises,
                 misspellings, outFile, stdin, nlines, resolutions, loaded, files,
                 reported, sent, visited, replaced>>

Next ==
  \/ spellCheckHtml
  \/ spellCheckText
  \/ spellCheckTag
  \/ spellCheckOther
  \/ textChecked
  \/ childrenReturn
  \/ reconcile
  \/ mainResume
  \/ mainLoopEnd
  \/ mainReturn
  \/ \E l \in Langs, chunk \in Chunks : stdoutData(l, chunk)
  \/ \E l \in Langs, category \in ErrorCategories : errorEvent(l, category)

Spec == Init /\ [][Next]_vars

(***************************************************************************)
(* Aspell.splitWordsAndSpaces called on its own, with any string of at     *)
(* most MaxLen characters: letters, digits, spaces and punctuation.        *)
(***************************************************************************)
SplitChars == {"a", "1", " ", ","}

Strings == UNION {[1..n -> SplitChars] : n \in 0..MaxLen}

SplitInit == Init /\ htmls = <<>> /\ options.elementLang = NoElementLang /\ ~options.failFast

\* Aspell.splitWordsAndSpaces(str)
splitCall ==
  /\ \E str \in Strings : split' = [str |-> str, parts |-> splitWordsAndSpaces(str)]
  /\ UNCHANGED <<htmls, options, feed, queue, buffer, i, exitStatus, pc, doc, stack, promises,
                 misspellings, outFile, exited, stdin, nlines, resolutions, loaded, files,
                 reported, sent, visited, replaced>>

SplitNext == splitCall

SplitSpec == SplitInit /\ [][SplitNext]_vars

(***************************************************************************)
(* The stdout 'data' handler of one session fed on its own with at most    *)
(* MaxChunks chunks of bytes, up to the call of parseLine: feed.chunks are *)
(* the chunks delivered, feed.lines the lines handed to parseLine.         *)
(***************************************************************************)
\* chunks of bytes a checker that writes UTF-8 may be read in
ByteChunks ==
  { <<"*", "\n">>, <<"*">>, <<"\n">>, <<"\r">>, <<"a">>,
    <<Lead>>, <<Continuation>>, <<Lead, Continuation>>, <<Continuation, "\n">> }

ChunkInit == SplitInit

\* proc.stdout.on('data') of the session of the base language, the lines
\* recorded where parseLine is called
dataCall ==
  /\ Len(feed.chunks) < MaxChunks
  /\ \E chunk \in ByteChunks :
       LET lines == Lines(buffer[options.lang], chunk)
       IN  /\ buffer' = [buffer EXCEPT ![options.lang] = Pop(lines)]
           /\ feed' = [chunks |-> Append(feed.chunks, chunk),
                       lines |-> feed.lines \o Popped(lines)]
  /\ UNCHANGED <<htmls, options, split, queue, i, exitStatus, pc, doc, stack, promises,
                 misspellings, outFile, exited, stdin, nlines, resolutions, loaded, files,
                 reported, sent, visited, replaced>>

ChunkNext == dataCall

ChunkSpec == ChunkInit /\ [][ChunkNext]_vars

(***************************************************************************)
(* Properties.                                                             *)
(***************************************************************************)
Range(seq) == {seq[n] : n \in 1..Len(seq)}

\* the process has exited otherwise than with main's result
Faulted == exited.how \notin {"running", "main"}

\* the resolve calls made for request k of session l
ResolutionsOf(l, k) ==
  {n \in 1..Len(resolutions) : resolutions[n].lang = l /\ resolutions[n].k = k}

\* request k of session l is still in the queue
Queued(l, k) == \E n \in 1..Len(queue[l]) : queue[l][n].info.k = k

\* C1: in a session that received its requests in order, the k-th result
\* line read (lines that are empty or start with '@' not counted) resolves
\* the promise of the k-th request, and no other: for every result line
\* parsed by a run that has not faulted, the request of the same rank has
\* been resolved, by that line.
C1_KthLineResolvesKthRequest ==
  /\ \A r \in Range(resolutions) : r.k = r.line
  /\ ~Faulted =>
       \A l \in Langs : \A k \in 1..nlines[l] :
         \E r \in Range(resolutions) : r.lang = l /\ r.k = k /\ r.line = k

\* C2: every request passed to checkWord is resolved exactly once or the
\* run ends with a fault: in a run that has not faulted a request is in the
\* queue and unresolved, or out of the queue and resolved once, and when
\* the run ends with main's result every request is resolved.
C2_EveryRequestResolvedOnce ==
  ~Faulted =>
    \A l \in Langs : \A k \in 1..Len(stdin[l]) :
      /\ Cardinality(ResolutionsOf(l, k)) = IF Queued(l, k) THEN 0 ELSE 1
      /\ exited.how = "main" => Cardinality(ResolutionsOf(l, k)) = 1

\* the first line the chunk completes is a '&' or '#' line that names a
\* word other than the word of the request at the head of the queue of l
NamesOtherWord(l, chunk) ==
  LET lines == Lines(buffer[l], chunk)
  IN  /\ Len(lines) > 1
      /\ Len(lines[1]) > 0
      /\ lines[1][1] \in {"&", "#"}
      /\ Len(queue[l]) > 0
      /\ At(SplitFields(lines[1]), 1) # Head(queue[l]).word

\* C3: a '&' or '#' line that names a word other than the word of the
\* request at the head of the queue aborts the run with the mismatch
\* error and status 1; the line resolves no request, and after the abort
\* nothing is annotated, written or changed.
C3_MismatchAborts ==
  [][ /\ \A l \in Langs, chunk \in Chunks :
           NamesOtherWord(l, chunk) /\ stdoutData(l, chunk) =>
             /\ exited' = [how |-> "uncaught", code |-> 1, error |-> "expected word"]
             /\ resolutions' = resolutions
             /\ promises' = promises
             /\ files' = files
             /\ doc' = doc
      /\ exited # Running => UNCHANGED vars ]_vars

\* a mismatching line has aborted the run, with a request of the node
\* unresolved
C3_Witness ==
  /\ exited = [how |-> "uncaught", code |-> 1, error |-> "expected word"]
  /\ \E n \in 1..Len(promises.results) : ~promises.results[n].settled

\* C4: a '-' line accepts the word: the request at the head of the queue
\* is resolved as a success, and a text node whose only failures are
\* run-together words is not listed as misspelled.
C4_RunTogetherAccepted ==
  /\ \A n \in 1..Len(promises.results) :
       promises.results[n].type = "run-together" => promises.results[n].success
  /\ \A m \in Range(misspellings) :
       \E n \in 1..Len(m.spellCheckResults) : m.spellCheckResults[n].type = "misspelling"

\* runs of skipped lines
SkippedRuns == { << <<>> >>, << <<"@">> >>, << <<>>, <<"@">>, <<>> >> }

\* result lines of every kind: accepted, of no known type, naming a word
SomeResultLines == { <<"*">>, <<"+">>, <<"#", " ", "a", " ", "0">> }

\* what the 'data' handler of session l does with these lines
Parsed(lines, l) == ParseLines(lines, Session(l), l, i)

\* the chunk completes lines, all of them empty or starting with '@'
OnlySkipped(l, chunk) ==
  LET lines == Lines(buffer[l], chunk)
  IN  /\ Len(lines) > 1
      /\ \A n \in 1..(Len(lines) - 1) : Len(lines[n]) = 0 \/ lines[n][1] = "@"

\* C5: an empty line and a line starting with '@' leave the queue as it is
\* and resolve no request, whatever the queue holds; such lines before,
\* between or after result lines do not change what the result lines do.
C5_SkippedLinesChangeNothing ==
  /\ [](Idle =>
          \A l \in Checkers(options) : \A xs \in SkippedRuns :
            /\ Parsed(xs, l) = Session(l)
            /\ \A r \in SomeResultLines :
                 /\ Parsed(xs \o <<r>>, l) = Parsed(<<r>>, l)
                 /\ Parsed(<<r>> \o xs, l) = Parsed(<<r>>, l)
                 /\ \A r2 \in SomeResultLines :
                      Parsed(<<r>> \o xs \o <<r2>>, l) = Parsed(<<r, r2>>, l))
  /\ [][ \A l \in Langs, chunk \in Chunks :
           OnlySkipped(l, chunk) /\ stdoutData(l, chunk) =>
             UNCHANGED <<queue, promises, resolutions, nlines, exited>> ]_vars

\* the walker waits with two requests in a queue, and skipped lines parsed
\* now leave them there
C5_Witness ==
  /\ Idle
  /\ \E l \in Checkers(options) :
       /\ Len(queue[l]) = 2
       /\ Parsed(<< <<>>, <<"@">> >>, l).queue = queue[l]
       /\ \E l2 \in Checkers(options) : Len(queue[l2]) = 0 /\ Parsed(<< <<>> >>, l2).thrown = ""

\* the document being checked, as it was loaded
Loaded == load(htmls[loaded[Len(loaded)] + 1])

\* the parent of node n in document d, 0 for a node without one
ParentOf(d, n) ==
  IF \E p \in 1..Len(d.nodes) : n \in Range(d.nodes[p].children)
    THEN CHOOSE p \in 1..Len(d.nodes) : n \in Range(d.nodes[p].children)
    ELSE 0

\* the elements that enclose node n, the root and what is above it left out
RECURSIVE Enclosing(_, _)
Enclosing(d, n) ==
  LET p == ParentOf(d, n)
  IN  IF n = d.root \/ p = 0 \/ p = d.root THEN {} ELSE {p} \cup Enclosing(d, p)

\* node n has an ancestor below the root whose tag is in the ignore set
UnderIgnored(d, n) == \E a \in Enclosing(d, n) : d.nodes[a].name \in options.ignoreElement

\* the misspellings found so far in this document, those of the running
\* spellCheckChildren calls from the outermost to the innermost
RECURSIVE Collected(_)
Collected(frames) ==
  IF Len(frames) = 0 THEN <<>> ELSE Head(frames).misspellings \o Collected(Tail(frames))

Found == Collected(stack) \o misspellings

NodesOf(ms) == [n \in 1..Len(ms) |-> ms[n].node]

\* C6: no word of a text node that has an ancestor below the root whose tag
\* is in the ignore set is passed to checkWord, and no such text node is
\* handed to the checker, listed as misspelled or replaced, at any depth.
C6_IgnoredNeverChecked ==
  Len(loaded) > 0 =>
    /\ \A e \in Range(sent) : ~UnderIgnored(Loaded, e.node)
    /\ \A n \in Range(visited) : ~UnderIgnored(Loaded, n)
    /\ \A n \in Range(NodesOf(Found)) : ~UnderIgnored(Loaded, n)
    /\ \A n \in Range(replaced) : ~UnderIgnored(Loaded, n)
    /\ \A l \in Langs : \A n \in 1..Len(queue[l]) : ~UnderIgnored(Loaded, queue[l][n].info.node)

\* a document with a word two levels below an ignored element has been
\* walked to its end, and words of it were sent
C6_Witness ==
  /\ pc = "resume"
  /\ Len(sent) > 0
  /\ \E n \in 1..Len(Loaded.nodes) :
       /\ Loaded.nodes[n].type = "text"
       /\ \E w \in Range(splitWordsAndSpaces(Loaded.nodes[n].data)) : isWord(w)
       /\ Cardinality(Enclosing(Loaded, n)) = 2
       /\ UnderIgnored(Loaded, n)

\* the language of the nearest element that encloses node n, below the
\* root, and has an element-language entry; the base language without one
RECURSIVE Effective(_, _)
Effective(d, n) ==
  LET p == ParentOf(d, n)
  IN  IF n = d.root \/ p = 0 \/ p = d.root THEN options.lang
      ELSE IF options.elementLang[d.nodes[p].name] # "" THEN options.elementLang[d.nodes[p].name]
      ELSE Effective(d, p)

\* the words of a text node, in order
WordsOf(d, n) == SelectSeq(splitWordsAndSpaces(d.nodes[n].data), isWord)

\* the words passed to checkWord for node n, in order
RECURSIVE SentWords(_, _)
SentWords(log, n) ==
  IF Len(log) = 0 THEN <<>>
  ELSE IF Head(log).node = n THEN <<Head(log).word>> \o SentWords(Tail(log), n)
  ELSE SentWords(Tail(log), n)

\* C7: every word of a text node goes to the session of the node's
\* effective language: the override of the nearest enclosing element below
\* the root that has one, the base language otherwise.
C7_EffectiveLanguage ==
  Len(loaded) > 0 =>
    /\ \A e \in Range(sent) :
         /\ e.lang = Effective(Loaded, e.node)
         /\ e.session = Effective(Loaded, e.node)
    /\ \A n \in Range(visited) : SentWords(sent, n) = WordsOf(Loaded, n)
    /\ \A l \in Langs : \A n \in 1..Len(queue[l]) :
         /\ queue[l][n].info.lang = l
         /\ l = Effective(Loaded, queue[l][n].info.node)

\* <p>a <em><b>b</b></em> a</p> with em=pt_BR and base en_US: the two a
\* went to en_US and b to pt_BR
C7_Witness ==
  /\ Len(loaded) > 0
  /\ htmls[loaded[Len(loaded)] + 1] = "plain.html"
  /\ options.lang = "en_US"
  /\ options.elementLang["em"] = "pt_BR"
  /\ options.elementLang["b"] = ""
  /\ [n \in 1..Len(sent) |-> <<sent[n].word, sent[n].session>>] =
       << << <<"a">>, "en_US" >>, << <<"b">>, "pt_BR" >>, << <<"a">>, "en_US" >> >>

\* the nodes of document d below node n, depth first and left to right
RECURSIVE Preorder(_, _)
RECURSIVE PreorderAll(_, _)
Preorder(d, n) == <<n>> \o PreorderAll(d, d.nodes[n].children)
PreorderAll(d, children) ==
  IF Len(children) = 0 THEN <<>>
  ELSE Preorder(d, Head(children)) \o PreorderAll(d, Tail(children))

\* the nodes are listed in document order, none twice
InDocumentOrder(d, nodes) ==
  LET order == Preorder(d, d.root)
      Pos(x) == CHOOSE k \in 1..Len(order) : order[k] = x
  IN  /\ \A n \in Range(nodes) : n \in Range(order)
      /\ \A a, b \in 1..Len(nodes) : a < b => Pos(nodes[a]) < Pos(nodes[b])

IsPrefix(a, b) == Len(a) <= Len(b) /\ SubSeq(b, 1, Len(a)) = a

Failing(results) == \E n \in 1..Len(results) : ~results[n].success

\* C8: the misspellings of a document, one entry for every text node with a
\* failing word, are in document order, and the nodes are replaced in that
\* order, whenever the responses arrive.
C8_DocumentOrder ==
  /\ [](Len(loaded) > 0 /\ Loaded.root # 0 =>
          /\ InDocumentOrder(Loaded, visited)
          /\ InDocumentOrder(Loaded, NodesOf(Found))
          /\ \A m \in Range(Found) :
               Loaded.nodes[m.node].type = "text" /\ Failing(m.spellCheckResults)
          /\ IsPrefix(replaced, NodesOf(misspellings))
          /\ outFile # <<>> => replaced = NodesOf(misspellings))
  /\ [][ pc = "await" /\ pc' = "children" =>
           NodesOf(Found') =
             IF Failing(promises.results)
               THEN Append(NodesOf(Found), promises.node)
               ELSE NodesOf(Found) ]_vars

\* two text nodes of a document were found misspelled and both replaced
C8_Witness ==
  /\ pc = "resume"
  /\ Len(misspellings) >= 2
  /\ replaced = NodesOf(misspellings)
  /\ outFile # <<>>

\* the documents are loaded in list order, each once
LoadedInOrder ==
  /\ Len(loaded) <= Len(htmls)
  /\ \A n \in 1..Len(loaded) : loaded[n] = n - 1

\* C9: with fail-fast, main's loop halts after the first document that is
\* annotated: no later document is loaded, no further word is sent, and
\* the status is 1; without fail-fast every document of the list is
\* checked once, in list order.
C9_FailFastHalts ==
  /\ [](/\ LoadedInOrder
        /\ options.failFast /\ Len(files) > 0 =>
             /\ files = <<loaded[Len(loaded)]>>
             /\ exited \in {Running, [how |-> "main", code |-> 1, error |-> ""]}
        /\ ~options.failFast /\ exited.how = "main" =>
             /\ Len(loaded) = Len(htmls)
             /\ [n \in 1..Len(reported) |-> reported[n][1]] = loaded)
  /\ [][ options.failFast /\ Len(files) > 0 =>
           UNCHANGED <<loaded, files, stdin, sent, queue, doc>> ]_vars

\* under fail-fast the first of two documents was annotated and the run
\* ended without the second being loaded
C9_Witness ==
  /\ options.failFast
  /\ Len(htmls) = 2
  /\ htmls[2] # "noroot.html"
  /\ loaded = <<0>>
  /\ files = <<0>>
  /\ exited = [how |-> "main", code |-> 1, error |-> ""]

\* C10: the exit status starts at 0, becomes 1 when a document is annotated
\* and never returns to 0; a run that ends with main's result exits with 1
\* if a document was annotated and with 0 otherwise.
C10_ExitStatus ==
  /\ [](/\ exitStatus \in {0, 1}
        /\ Len(loaded) = 0 => exitStatus = 0
        /\ pc # "resume" => (exitStatus = 1 <=> Len(files) > 0)
        /\ exited.how = "main" =>
             /\ exited.code = exitStatus
             /\ exited.code = IF Len(files) > 0 THEN 1 ELSE 0)
  /\ [][ exitStatus' >= exitStatus ]_vars

\* the first of two documents was annotated, the second was clean, and the
\* run ended with status 1
C10_Witness ==
  /\ exited = [how |-> "main", code |-> 1, error |-> ""]
  /\ reported = << <<0, "Failed">>, <<1, "Ok!">> >>
  /\ files = <<0>>

\* the input of the process of session l has been closed by end()
Ended(l) == \E input \in {SubSeq(stdin[l], 1, n) : n \in 0..Len(stdin[l])} : stdin[l] = end(input)

\* C11: after main's loop has ended, at its last document or halted by
\* fail-fast, end() is called on every session before the process exits: at
\* an exit with main's result no session is left open.
C11_SessionsClosedAtExit ==
  exited.how = "main" => \A l \in Checkers(options) : Ended(l)

\* C12: a document in which no word fails gets no output file, no change
\* to its tree and no style rule, and is reported 'Ok!'; a document with a
\* misspelling listed gets one output file, written once, after every
\* listed node was replaced.
C12_CleanOrOneFile ==
  /\ [](/\ \A a, b \in 1..Len(files) : a # b => files[a] # files[b]
        /\ pc = "resume" /\ Len(misspellings) = 0 =>
             /\ outFile = <<>>
             /\ doc = Loaded
             /\ i \notin Range(files))
  /\ [][ /\ pc = "then" /\ exited = Running =>
             IF Len(misspellings) = 0
               THEN UNCHANGED <<doc, files, replaced>> /\ outFile' = <<>>
               ELSE /\ files' = Append(files, i)
                    /\ outFile' # <<>>
                    /\ replaced' = NodesOf(misspellings)
                    /\ doc'.style
                    /\ pc' = "resume"
         /\ pc = "resume" /\ exited = Running /\ Len(misspellings) = 0 =>
             reported' = Append(reported, <<i, "Ok!">>) ]_vars
\* the text a reader sees in the nodes ids of document d, in order
RECURSIVE VisibleText(_, _)
VisibleText(d, ids) ==
  IF Len(ids) = 0 THEN <<>>
  ELSE LET n == d.nodes[Head(ids)]
       IN  (IF n.type = "text" THEN n.data ELSE VisibleText(d, n.children))
             \o VisibleText(d, Tail(ids))

\* a node of the document as loaded, by its identity
Kept(id) ==
  [type |-> "kept", name |-> "", class |-> <<>>, title |-> <<>>, text |-> <<>>, id |-> id]

\* what stands at child id of the document being checked: a node of the
\* document as loaded, or a fragment by its kind, attributes and text
Shape(id) ==
  IF id <= Len(Loaded.nodes) THEN Kept(id)
  ELSE [type |-> doc.nodes[id].type, name |-> doc.nodes[id].name,
        class |-> doc.nodes[id].attribs.class, title |-> doc.nodes[id].attribs.title,
        text |-> VisibleText(doc, <<id>>), id |-> 0]

\* the fragment expected for a span with outcome r, checked in language lang
ExpectedFragment(r, span, lang) ==
  IF r.success
    THEN [type |-> "text", name |-> "", class |-> <<>>, title |-> <<>>, text |-> span, id |-> 0]
    ELSE [type |-> "tag", name |-> "abbr", class |-> <<"misspelling", "lang-", lang>>,
          title |-> Join(r.alternatives, <<",", " ">>) \o <<"?">>, text |-> span, id |-> 0]

\* the fragments expected in place of the text node of misspelling m
ExpectedFragments(m) ==
  LET spans == splitWordsAndSpaces(Loaded.nodes[m.node].data)
  IN  [n \in 1..Len(spans) |->
         ExpectedFragment(m.spellCheckResults[n], spans[n], Effective(Loaded, m.node))]

\* the children expected once the listed text nodes are replaced
RECURSIVE ExpectedChildren(_)
ExpectedChildren(children) ==
  IF Len(children) = 0 THEN <<>>
  ELSE LET c == Head(children)
           listed == {n \in 1..Len(misspellings) : misspellings[n].node = c}
       IN  (IF listed = {} THEN <<Kept(c)>>
            ELSE ExpectedFragments(misspellings[CHOOSE n \in listed : TRUE]))
             \o ExpectedChildren(Tail(children))

\* C13: a text node with a failing word is replaced by one fragment for
\* every span, in span order: plain text equal to the span for a span that
\* is no word or a word that succeeded, and for a failing word an abbr
\* element with the word as its text, the class of the language the word
\* was checked in and the title made of the alternatives joined by ', '
\* and a '?'; the text of the fragments together is the text of the node.
C13_Annotation ==
  /\ [](pc = "resume" /\ outFile # <<>> =>
          /\ \A m \in Range(misspellings) :
               /\ Len(m.spellCheckResults) = Len(splitWordsAndSpaces(Loaded.nodes[m.node].data))
               /\ m.node \notin UNION {Range(doc.nodes[p].children) : p \in 1..Len(doc.nodes)}
          /\ \A p \in 1..Len(Loaded.nodes) :
               /\ [n \in 1..Len(doc.nodes[p].children) |-> Shape(doc.nodes[p].children[n])]
                    = ExpectedChildren(Loaded.nodes[p].children)
               /\ VisibleText(doc, doc.nodes[p].children)
                    = VisibleText(Loaded, Loaded.nodes[p].children))
  /\ [][ pc = "then" /\ exited = Running /\ Len(misspellings) > 0 =>
           /\ replaced' = NodesOf(misspellings)
           /\ \A m \in Range(misspellings) :
                m.node \notin UNION {Range(doc'.nodes[p].children) : p \in 1..Len(doc'.nodes)} ]_vars
\* the strings of a list put together
RECURSIVE Concat(_)
Concat(list) == IF Len(list) = 0 THEN <<>> ELSE Head(list) \o Concat(Tail(list))

\* every character of the span is a letter or a digit
AllWord(span) == \A n \in 1..Len(span) : span[n] \in {"a", "b", "0", "1"}

\* no character of the span is a letter or a digit
NoneWord(span) == \A n \in 1..Len(span) : span[n] \notin {"a", "b", "0", "1"}

\* C14: the spans of splitWordsAndSpaces put together in order are the
\* input; every span is non-empty and is all letters and digits (isWord
\* true) or has none (isWord false); neighbours are of different classes;
\* the empty string gives no span.
C14_SpansRoundTrip ==
  LET parts == split.parts
  IN  /\ Concat(parts) = split.str
      /\ \A n \in 1..Len(parts) :
           /\ Len(parts[n]) > 0
           /\ AllWord(parts[n]) \/ NoneWord(parts[n])
           /\ isWord(parts[n]) <=> AllWord(parts[n])
      /\ \A n \in 1..(Len(parts) - 1) : AllWord(parts[n]) # AllWord(parts[n + 1])
      /\ split.str = <<>> => parts = <<>>
      /\ Len(split.str) > 0 /\ NoneWord(split.str) => parts = <<split.str>>

\* a string of a word, punctuation and a space, and a second word was split
\* into its three spans
C14_Witness ==
  /\ split.str = <<"a", ",", " ", "1">>
  /\ split.parts = << <<"a">>, <<",", " ">>, <<"1">> >>
\* C15: an error event of category 'spawn' or 'stderr' of any session ends
\* the run with status 1 whenever it is delivered, and nothing runs after
\* it; an error event of category 'stdin' changes nothing: the run, the
\* queues and the exit status stay as they are.
C15_ErrorEvents ==
  /\ [](Idle =>
          \A l \in Checkers(options), category \in ErrorCategories :
            ENABLED errorEvent(l, category))
  /\ [][ \A l \in Langs, category \in ErrorCategories :
           errorEvent(l, category) =>
             IF category \in {"spawn", "stderr"}
               THEN /\ exited' = [how |-> category, code |-> 1, error |-> ""]
                    /\ UNCHANGED <<queue, files, doc, exitStatus, reported, stdin>>
               ELSE UNCHANGED vars ]_vars
  /\ [][ exited.how \in {"spawn", "stderr"} => UNCHANGED vars ]_vars

\* a 'stderr' event ended the run, with status 1, while a request of the
\* second document was waiting for its answer
C15_Witness ==
  /\ exited = [how |-> "stderr", code |-> 1, error |-> ""]
  /\ i = 1
  /\ \E l \in Langs : Len(queue[l]) > 0
\* C16: a root selector that finds nothing in a document of the list, at
\* whatever place of the list, aborts the run before any checking starts:
\* when the run aborts for it, no word was sent to a checker and no output
\* file was written.
C16_NoRootAbortsBeforeChecking ==
  exited.error = "no root" =>
    /\ \A l \in Langs : stdin[l] = <<>>
    /\ files = <<>>
\* the children of node p of document d that are nodes of the document as
\* loaded and not replaced
KeptChildren(d, p) ==
  LET IsKept(c) == c <= Len(Loaded.nodes) /\ c \notin Range(replaced)
  IN  SelectSeq(d.nodes[p].children, IsKept)

\* C17: a text node whose spans all succeeded is not replaced: replacing
\* the listed nodes leaves every other text node as it is and where it is,
\* also next to annotated text nodes, and every element keeps its tag, its
\* attributes and its place.
C17_OthersUnchanged ==
  Len(loaded) > 0 /\ Loaded.root # 0 =>
    /\ \A m \in Range(Found) : Failing(m.spellCheckResults)
    /\ Range(replaced) \subseteq Range(NodesOf(misspellings))
    /\ \A n \in Range(replaced) : Loaded.nodes[n].type = "text"
    /\ Len(doc.nodes) >= Len(Loaded.nodes)
    /\ \A n \in 1..Len(Loaded.nodes) :
         /\ doc.nodes[n].type = Loaded.nodes[n].type
         /\ doc.nodes[n].name = Loaded.nodes[n].name
         /\ doc.nodes[n].data = Loaded.nodes[n].data
         /\ doc.nodes[n].attribs = Loaded.nodes[n].attribs
         /\ KeptChildren(doc, n) = KeptChildren(Loaded, n)
         /\ n \notin Range(replaced) => ParentOf(doc, n) = ParentOf(Loaded, n)

\* in <p>a <em><b>b</b></em> a</p> the first text node was annotated and
\* the two others, checked without a failure, were not
C17_Witness ==
  /\ pc = "resume"
  /\ Len(loaded) > 0
  /\ htmls[loaded[Len(loaded)] + 1] = "plain.html"
  /\ visited = <<3, 6, 7>>
  /\ replaced = <<3>>
  /\ outFile # <<>>
\* the text nodes under the root of document d that no ignored element
\* encloses, in document order
TextNodes(d) ==
  LET Checked(n) == d.nodes[n].type = "text" /\ ~UnderIgnored(d, n)
  IN  SelectSeq(Preorder(d, d.root), Checked)

\* C18: with fail-fast, once a text node of the document was found to have
\* a failing word no word of a later text node is sent, and the list of
\* misspellings of the document has at most one entry, the text node
\* checked last; without fail-fast a walk that ends has checked every text
\* node under the root that no ignored element encloses.
C18_FailFastInDocument ==
  /\ [](Len(loaded) > 0 /\ Loaded.root # 0 =>
          /\ options.failFast =>
               /\ Len(Found) <= 1
               /\ Len(Found) = 1 => Found[1].node = visited[Len(visited)]
          /\ IsPrefix(visited, TextNodes(Loaded))
          /\ ~options.failFast /\ pc \in {"then", "resume"} => visited = TextNodes(Loaded))
  /\ [][ options.failFast /\ Len(Found) > 0 => UNCHANGED <<sent, stdin, visited, queue>> ]_vars

\* under fail-fast the first text node of <p>a <em><b>b</b></em> a</p> had
\* a failing word, and the walk ended without a word of the two others sent
C18_Witness ==
  /\ options.failFast
  /\ pc = "resume"
  /\ Len(loaded) > 0
  /\ htmls[loaded[Len(loaded)] + 1] = "plain.html"
  /\ TextNodes(Loaded) = <<3, 6, 7>>
  /\ visited = <<3>>
  /\ Len(sent) = 1
  /\ NodesOf(misspellings) = <<3>>
\* the spans of a list that are words, each as the line written for it
WordLines(parts) ==
  LET IsWordSpan(span) == Len(span) > 0 /\ AllWord(span)
      words == SelectSeq(parts, IsWordSpan)
  IN  [n \in 1..Len(words) |-> words[n] \o <<"\n">>]

\* the words of the requests of a queue, each as the line written for it
QueueLines(q) == [n \in 1..Len(q) |-> q[n].word \o <<"\n">>]

\* some span of the text node being checked has no outcome yet
Unresolved == \E n \in 1..Len(promises.results) : ~promises.results[n].settled

\* C19: the requests of all the word spans of a text node are put in the
\* queue and written to the session in span order in one step, before any
\* answer is read; no word of a later node is sent while one of them is
\* unresolved; fail-fast drops none of them: the node has one outcome for
\* every span, in span order, also after an early word of it has failed.
C19_NodeRequestsTogether ==
  /\ [](/\ pc = "await" =>
             /\ Len(promises.results) = Len(split.parts)
             /\ split.parts = splitWordsAndSpaces(doc.nodes[promises.node].data)
             /\ \A n \in 1..Len(split.parts) :
                  promises.results[n].settled => promises.results[n].word = split.parts[n]
        /\ Len(loaded) > 0 /\ Loaded.root # 0 =>
             \A m \in Range(Found) :
               LET spans == splitWordsAndSpaces(Loaded.nodes[m.node].data)
               IN  [n \in 1..Len(m.spellCheckResults) |-> m.spellCheckResults[n].word] = spans)
  /\ [][ pc = "children" /\ pc' = "await" =>
           \E l \in Checkers(options) :
             /\ l = Top.lang
             /\ stdin'[l] = stdin[l] \o WordLines(split'.parts)
             /\ QueueLines(queue'[l]) = QueueLines(queue[l]) \o WordLines(split'.parts)
             /\ \A l2 \in Langs \ {l} : stdin'[l2] = stdin[l2] /\ queue'[l2] = queue[l2]
             /\ UNCHANGED <<nlines, resolutions, buffer>> ]_vars
  /\ [][ pc = "await" /\ Unresolved =>
           /\ UNCHANGED <<sent, stdin, visited, stack>>
           /\ pc' = "await" ]_vars

\* under fail-fast the first of the two words of a text node has failed
\* and the request of the second is still in the queue, unresolved
C19_Witness ==
  /\ options.failFast
  /\ pc = "await"
  /\ exited = Running
  /\ Len(promises.results) = 3
  /\ promises.results[1].settled /\ ~promises.results[1].success
  /\ ~promises.results[3].settled
  /\ \E l \in Langs : Len(queue[l]) = 1 /\ queue[l][1].info.span = 3
\* a non-empty run of letters and digits
WordClass(str) == Len(str) > 0 /\ AllWord(str)

\* strings that are no words: empty, blank, punctuation, words with a
\* blank or punctuation before, after or inside
NonWords ==
  { <<>>, <<" ">>, <<",">>, <<"\r">>, <<"a", " ">>, <<" ", "a">>, <<"a", ",", "1">>,
    <<"a", "\n">>, <<"-">> }

SomeWords == { <<"a">>, <<"0">>, <<"b", "1">> }

\* the session of language l as checkWord sees it
Written(l) == [queue |-> queue[l], stdin |-> stdin[l], thrown |-> FALSE]

\* C20: checkWord with a string that is not a non-empty run of letters and
\* digits throws, puts no request in the queue and writes nothing; every
\* entry of a queue and every line written to a checker is a word; the
\* walker passes no span that is no word to checkWord: such a span is
\* resolved as a success at once, with no request.
C20_OnlyWordsSent ==
  /\ \A l \in Langs :
       /\ \A w \in NonWords :
            checkWord(Written(l), w, NoInfo) = [Written(l) EXCEPT !.thrown = TRUE]
       /\ \A w \in SomeWords :
            LET st == checkWord(Written(l), w, NoInfo)
            IN  /\ ~st.thrown
                /\ st.stdin = Append(stdin[l], w \o <<"\n">>)
                /\ Len(st.queue) = Len(queue[l]) + 1
                /\ st.queue[Len(st.queue)].word = w
       /\ \A n \in 1..Len(queue[l]) : WordClass(queue[l][n].word)
       /\ \A n \in 1..Len(stdin[l]) :
            \E w \in {SubSeq(stdin[l][n], 1, Len(stdin[l][n]) - 1)} :
              WordClass(w) /\ stdin[l][n] = w \o <<"\n">>
  /\ \A e \in Range(sent) : WordClass(e.word)
  /\ pc = "await" =>
       \A n \in 1..Len(split.parts) :
         IF WordClass(split.parts[n])
           THEN promises.results[n].hasInfo
           ELSE promises.results[n] =
                  Settled(TRUE, split.parts[n],
                          [NoInfo EXCEPT !.offset = promises.results[n].info.offset,
                                         !.lang = Top.lang],
                          <<>>, FALSE, FALSE, "")
  /\ pc = "await" =>
       Len(SentWords(sent, promises.node)) = Len(WordLines(split.parts))

\* the text node "a b" was sent: two requests in the queue, two lines
\* written, and the blank between the words resolved with no request
C20_Witness ==
  /\ pc = "await"
  /\ split.parts = << <<"a">>, <<" ">>, <<"b">> >>
  /\ promises.results[2].settled /\ ~promises.results[2].hasInfo
  /\ \E l \in Langs :
       /\ Len(queue[l]) = 2
       /\ stdin[l] = << <<"a", "\n">>, <<"b", "\n">> >>
\* the sessions that have requests in their queue
Busy == {l \in Langs : Len(queue[l]) > 0}

\* C21: the unresolved requests of all sessions together belong to one
\* text node of the document being checked: at most one session has
\* requests in its queue, every queue is empty when the nodes of a document
\* are replaced and its file written, and when the next document starts.
C21_OneNodeInFlight ==
  /\ [](/\ Cardinality(Busy) <= 1
        /\ \A l \in Busy :
             /\ pc = "await"
             /\ \A n \in 1..Len(queue[l]) :
                  /\ queue[l][n].info.doc = i
                  /\ queue[l][n].info.node = promises.node
                  /\ queue[l][n].info.lang = l
        /\ pc = "await" =>
             \A n \in 1..Len(promises.results) :
               ~promises.results[n].settled =>
                 /\ promises.results[n].info.doc = i
                 /\ promises.results[n].info.node = promises.node)
  /\ [][ (doc' # doc \/ files' # files \/ loaded' # loaded) =>
           Busy = {} /\ Busy' = {} ]_vars

\* the second document is being checked and the two requests of one of
\* its text nodes wait in the queue of one session
C21_Witness ==
  /\ i = 1
  /\ pc = "await"
  /\ exited = Running
  /\ \E l \in Langs : Len(queue[l]) = 2 /\ queue[l][2].info.doc = 1
  /\ Len(files) = 1
\* the resolve calls made for requests of session l
ResolvedBy(l) == {n \in 1..Len(resolutions) : resolutions[n].lang = l}

\* C22: no request leaves a queue without being resolved or the run being
\* aborted: whatever line a session parses, the queue is left as it is, or
\* the promise of the request taken from it is resolved, or the run ends
\* with a fault; in a state without a fault the requests sent are those
\* resolved and those in the queue.
C22_NoRequestLost ==
  /\ [](~Faulted =>
          \A l \in Langs :
            Len(stdin[l]) = Cardinality(ResolvedBy(l)) + Len(queue[l]))
  /\ [][ \A l \in Langs :
           Len(queue'[l]) < Len(queue[l]) =>
             \/ Len(resolutions') - Len(resolutions) = Len(queue[l]) - Len(queue'[l])
             \/ Faulted' ]_vars
\* C23: the lines a session parses depend on the bytes the checker writes
\* and not on the chunks they arrive in: the lines handed to parseLine,
\* and the text kept in the buffer, are those of the same bytes delivered
\* as one chunk; text after the last line end is kept and not parsed.
C23_ChunkingIndependent ==
  LET whole == Lines(<<>>, Concat(feed.chunks))
  IN  /\ feed.lines = Popped(whole)
      /\ Len(feed.chunks) > 0 => buffer[options.lang] = Pop(whole)
====
